---- MODULE Spec2Model ----
(***************************************************************************)
(* The label-and-select pipeline of llm_pic_search_poc:                    *)
(*   main.py                    the orchestrator (two child processes)     *)
(*   image_search_annotator.py  the Result Annotator (Playwright session)  *)
(*   vlm_selector.py            the Selection Client (one model request)   *)
(* A text is a sequence of characters; a character is a one-unit string.   *)
(* "Zh" stands for one non-ASCII (CJK) character, "Mj" for the characters  *)
(* a wrong-codec decode turns it into.                                     *)
(***************************************************************************)
EXTENDS Integers, Sequences, FiniteSets, TLC

VARIABLES fs, orch, ann, sel

vars == <<fs, orch, ann, sel>>

\* ------------------------------------------------------------------ bounds
MaxRuns == 2
MaxThumbs == 3
MaxLen == 3

\* --------------------------------------------------------- program constants
NavTimeout == 60000
SearchBoxTimeout == 10000
ResultsTimeout == 15000
SettleDelay == 3000

\* How long the page takes to satisfy an awaited condition (ms).
PageDelays == {0, 12000, 70000}

\* ------------------------------------------------------------------- texts
Whitespace == {" ", "\r", "\n"}
Alphabet == {" ", "\r", "3", "x", "Zh"}
Responses == UNION {[1..n -> Alphabet] : n \in 0..MaxLen}

CfgErrorText == <<"Zh", "c", "f", "g">>
ApiErrorText == <<"Zh", "a", "p", "i">>

RECURSIVE LStrip(_)
LStrip(s) ==
  IF s = <<>> THEN <<>>
  ELSE IF Head(s) \in Whitespace THEN LStrip(Tail(s)) ELSE s

RECURSIVE RStrip(_)
RStrip(s) ==
  IF s = <<>> THEN <<>>
  ELSE IF s[Len(s)] \in Whitespace THEN RStrip(SubSeq(s, 1, Len(s) - 1)) ELSE s

\* str.strip()
Strip(s) == RStrip(LStrip(s))

\* the child's sys.stdout: text -> bytes under the child's stdout encoding
EncodeChar(c, enc) == IF c = "Zh" THEN <<"Zh", enc>> ELSE <<c, "ascii">>
Encode(s, enc) == [i \in 1..Len(s) |-> EncodeChar(s[i], enc)]

\* print(selected_label): the text and a line feed
WriteStdout(s, enc) == Encode(Append(s, "\n"), enc)

\* bytes.decode('gbk')
Foreign(b) == b[2] \notin {"ascii", "gbk"}
DecodeFails(bytes, misfit) ==
  misfit = "error" /\ \E i \in 1..Len(bytes) : Foreign(bytes[i])
DecodeGbk(bytes) ==
  [i \in 1..Len(bytes) |-> IF Foreign(bytes[i]) THEN "Mj" ELSE bytes[i][1]]

\* io.TextIOWrapper(newline=None) on the read side: \r\n and \r become \n
RECURSIVE UniversalNewlines(_)
UniversalNewlines(s) ==
  IF s = <<>> THEN <<>>
  ELSE IF Head(s) = "\r"
       THEN IF Len(s) >= 2 /\ s[2] = "\n"
            THEN <<"\n">> \o UniversalNewlines(SubSeq(s, 3, Len(s)))
            ELSE <<"\n">> \o UniversalNewlines(Tail(s))
       ELSE <<Head(s)>> \o UniversalNewlines(Tail(s))

\* result.stdout of subprocess.run(..., text=True, encoding='gbk')
ReadStdout(bytes) == UniversalNewlines(DecodeGbk(bytes))

\* --------------------------------------------------------- the in-page script
Digit(d) == CASE d = 0 -> "0" [] d = 1 -> "1" [] d = 2 -> "2" [] d = 3 -> "3"
              [] d = 4 -> "4" [] d = 5 -> "5" [] d = 6 -> "6" [] d = 7 -> "7"
              [] d = 8 -> "8" [] d = 9 -> "9"

RECURSIVE DecimalText(_)
DecimalText(n) ==
  IF n < 10 THEN <<Digit(n)>> ELSE Append(DecimalText(n \div 10), Digit(n % 10))

LabelTextZeroBased(index) == DecimalText(index)

\* label.innerText = `${index + 1}`
LabelText(index) == DecimalText(index + 1)

\* one overlay: the label element appended to document.body
MakeLabel(rect, index, scrollX, scrollY) ==
  [innerText |-> LabelText(index),
   top |-> scrollY + rect.top,
   left |-> scrollX + rect.left]

\* images.forEach((img, index) => ...), index counted from 0
RECURSIVE ForEach(_, _, _, _, _)
ForEach(images, index, scrollX, scrollY, body) ==
  IF index >= Len(images) THEN body
  ELSE ForEach(images, index + 1, scrollX, scrollY,
               Append(body, MakeLabel(images[index + 1], index, scrollX, scrollY)))

Rects == [top : {0, 120}, left : {8}]
ScrollYs == {0, 30}
ImageLists == UNION {[1..n -> Rects] : n \in 0..MaxThumbs}

\* ------------------------------------------------------------------- state
NoFile == [exists |-> FALSE, run |-> 0, labels |-> <<>>]

AnnInit ==
  [apc |-> "idle", playwright |-> FALSE, browserOpen |-> FALSE,
   launched |-> FALSE, pending |-> "none", raised |-> "none",
   timedOutAt |-> "none", waited |-> 0, handlerRaised |-> FALSE,
   images |-> <<>>, body |-> <<>>, scrollX |-> 0, scrollY |-> 0,
   evaluated |-> FALSE, annotated_count |-> 0,
   wroteSuccess |-> FALSE, wroteError |-> FALSE,
   exit |-> -1, unhandled |-> FALSE]

SelInit ==
  [spc |-> "idle", env |-> {}, enc |-> "gbk", fileMissing |-> FALSE,
   clientBuilt |-> FALSE, imageRead |-> NoFile, didRead |-> FALSE,
   requests |-> 0, responded |-> FALSE, response |-> <<>>, apiRaised |-> FALSE,
   retval |-> <<>>, stdout |-> <<>>, stderr |-> <<>>, exit |-> -1]

OrchInit ==
  [pc |-> "main", run |-> 1, selCalls |-> 0, outcome |-> "none",
   selected_image_label |-> <<>>, exit |-> -1]

Init ==
  /\ fs = [labeled |-> NoFile, error |-> NoFile]
  /\ orch = OrchInit
  /\ ann = AnnInit
  /\ sel = SelInit


\* ------------------------------------------------------ the Result Annotator
\* an exception raised inside the try block: control moves to its handler
Throw(kind, where) ==
  [ann EXCEPT !.pending = kind, !.raised = kind,
              !.timedOutAt = IF kind = "TimeoutError" THEN where ELSE "none",
              !.apc = IF kind = "TimeoutError" THEN "except_timeout"
                      ELSE "except_other"]

\* a blocking wait with its own budget: done when the page is ready in time,
\* TimeoutError once the budget is spent, any other page error otherwise
Wait(at, budget, next) ==
  /\ ann.apc = at
  /\ \/ \E d \in PageDelays :
          ann' = IF d < budget
                 THEN [ann EXCEPT !.apc = next, !.waited = d]
                 ELSE [Throw("TimeoutError", at) EXCEPT !.waited = budget]
     \/ ann' = Throw("Error", at)
  /\ UNCHANGED <<fs, orch, sel>>

\* a page action under Playwright's default budget
PageAction(at, next) ==
  /\ ann.apc = at
  /\ \/ ann' = [ann EXCEPT !.apc = next]
     \/ \E kind \in {"TimeoutError", "Error"} : ann' = Throw(kind, "none")
  /\ UNCHANGED <<fs, orch, sel>>

\* page.wait_for_timeout(3000)
Sleep(at, next) ==
  /\ ann.apc = at
  /\ \/ ann' = [ann EXCEPT !.apc = next, !.waited = SettleDelay]
     \/ ann' = Throw("Error", "none")
  /\ UNCHANGED <<fs, orch, sel>>

\* with sync_playwright() as p:
SyncPlaywright ==
  /\ ann.apc = "sync_playwright"
  /\ \/ ann' = [ann EXCEPT !.playwright = TRUE, !.apc = "launch"]
     \/ ann' = [ann EXCEPT !.pending = "Error", !.apc = "exit"]
  /\ UNCHANGED <<fs, orch, sel>>

\* browser = p.chromium.launch(headless=False), outside the try block
Launch ==
  /\ ann.apc = "launch"
  /\ \/ ann' = [ann EXCEPT !.browserOpen = TRUE, !.launched = TRUE,
                           !.apc = "new_page"]
     \/ ann' = [ann EXCEPT !.pending = "Error", !.apc = "with_exit"]
  /\ UNCHANGED <<fs, orch, sel>>

\* page = browser.new_page(), outside the try block
NewPage ==
  /\ ann.apc = "new_page"
  /\ \/ ann' = [ann EXCEPT !.apc = "goto"]
     \/ ann' = [ann EXCEPT !.pending = "Error", !.apc = "with_exit"]
  /\ UNCHANGED <<fs, orch, sel>>

Goto == Wait("goto", NavTimeout, "wait_search_box")

WaitSearchBox == Wait("wait_search_box", SearchBoxTimeout, "fill")

Fill == PageAction("fill", "press")

Press == PageAction("press", "wait_results")

WaitResults == Wait("wait_results", ResultsTimeout, "settle")

Settle == Sleep("settle", "evaluate")

\* annotated_count = page.evaluate(js_code)
Evaluate ==
  /\ ann.apc = "evaluate"
  /\ \/ \E imgs \in ImageLists, sy \in ScrollYs :
          ann' = [ann EXCEPT !.images = imgs, !.scrollY = sy,
                             !.body = ForEach(imgs, 0, ann.scrollX, sy, <<>>),
                             !.annotated_count = Len(imgs),
                             !.evaluated = TRUE, !.apc = "screenshot"]
     \/ ann' = Throw("Error", "none")
  /\ UNCHANGED <<fs, orch, sel>>

\* what a capture of the page shows: the label texts baked into the pixels
Capture == [exists |-> TRUE, run |-> orch.run,
            labels |-> [k \in 1..Len(ann.body) |-> ann.body[k].innerText]]

\* page.screenshot(path="labeled_screenshot.png", full_page=True)
Screenshot ==
  /\ ann.apc = "screenshot"
  /\ \/ /\ fs' = [fs EXCEPT !.labeled = Capture]
        /\ ann' = [ann EXCEPT !.wroteSuccess = TRUE, !.apc = "post_wait"]
     \/ /\ \E kind \in {"TimeoutError", "Error"} : ann' = Throw(kind, "none")
        /\ UNCHANGED fs
  /\ UNCHANGED <<orch, sel>>

PostWait == Sleep("post_wait", "finally")

\* page.screenshot(path="error_screenshot.png") inside an except block: a
\* failure of this call is a new exception that no handler catches
ErrorScreenshot(at) ==
  /\ ann.apc = at
  /\ \/ /\ fs' = [fs EXCEPT !.error = Capture]
        /\ ann' = [ann EXCEPT !.pending = "none", !.wroteError = TRUE,
                              !.apc = "finally"]
     \/ /\ ann' = [ann EXCEPT !.pending = "Error", !.handlerRaised = TRUE,
                              !.apc = "finally"]
        /\ UNCHANGED fs
  /\ UNCHANGED <<orch, sel>>

ExceptTimeout == ErrorScreenshot("except_timeout")

ExceptOther == ErrorScreenshot("except_other")

\* finally: browser.close()
Finally ==
  /\ ann.apc = "finally"
  /\ \/ ann' = [ann EXCEPT !.browserOpen = FALSE, !.apc = "with_exit"]
     \/ ann' = [ann EXCEPT !.pending = "Error", !.apc = "with_exit"]
  /\ UNCHANGED <<fs, orch, sel>>

PlaywrightKeepsBrowser ==
  /\ ann.apc = "with_exit"
  /\ ann' = [ann EXCEPT !.playwright = FALSE, !.apc = "exit"]
  /\ UNCHANGED <<fs, orch, sel>>

\* leaving the with block stops the driver, which ends every browser it
\* launched; the page and its DOM are gone
PlaywrightStop ==
  /\ ann.apc = "with_exit"
  /\ ann' = [ann EXCEPT !.playwright = FALSE, !.browserOpen = FALSE,
                        !.apc = "exit"]
  /\ UNCHANGED <<fs, orch, sel>>

\* the script ends: status 0 when annotate_image_search returned, 1 with a
\* traceback when an exception left it
AnnotatorExit ==
  /\ ann.apc = "exit"
  /\ ann' = [ann EXCEPT !.exit = IF ann.pending = "none" THEN 0 ELSE 1,
                        !.unhandled = (ann.pending # "none"),
                        !.images = <<>>, !.body = <<>>, !.scrollY = 0,
                        !.apc = "exited"]
  /\ UNCHANGED <<fs, orch, sel>>

Annotator ==
  \/ SyncPlaywright \/ Launch \/ NewPage \/ Goto \/ WaitSearchBox \/ Fill
  \/ Press \/ WaitResults \/ Settle \/ Evaluate \/ Screenshot \/ PostWait
  \/ ExceptTimeout \/ ExceptOther \/ Finally \/ PlaywrightStop
  \/ AnnotatorExit


\* ------------------------------------------------------ the Selection Client
Settings == {"OPENAI_API_KEY", "OPENAI_API_BASE", "OPENAI_MODEL_NAME"}
StdoutEncodings == {"gbk", "utf-8"}

MissingFileText == <<"Zh", "f", "n", "f">>
ReadErrorText == <<"Zh", "e", "n", "c">>

\* api_key, base_url, model_name = os.getenv(...); if not all([...]): return
ConfigCheck ==
  /\ sel.spc = "call_vlm_api"
  /\ sel' = IF sel.env = Settings
            THEN [sel EXCEPT !.spc = "client"]
            ELSE [sel EXCEPT !.retval = CfgErrorText, !.spc = "print"]
  /\ UNCHANGED <<fs, orch, ann>>

\* client = OpenAI(api_key=api_key, base_url=base_url), inside the try block
OpenAIClient ==
  /\ sel.spc = "client"
  /\ \/ sel' = [sel EXCEPT !.clientBuilt = TRUE, !.spc = "encode"]
     \/ sel' = [sel EXCEPT !.apiRaised = TRUE, !.retval = ApiErrorText,
                           !.spc = "print"]
  /\ UNCHANGED <<fs, orch, ann>>

EncodeImageCaught ==
  /\ sel.spc = "encode"
  /\ \/ /\ fs.labeled.exists
        /\ sel' = [sel EXCEPT !.imageRead = fs.labeled, !.didRead = TRUE,
                              !.spc = "request"]
     \/ /\ ~fs.labeled.exists
        /\ sel' = [sel EXCEPT !.stderr = Encode(MissingFileText, sel.enc),
                              !.retval = ApiErrorText, !.spc = "print"]
     \/ /\ fs.labeled.exists
        /\ sel' = [sel EXCEPT !.stderr = Encode(ReadErrorText, sel.enc),
                              !.retval = ApiErrorText, !.spc = "print"]
  /\ UNCHANGED <<fs, orch, ann>>

\* base64_image = encode_image_to_base64(image_path): sys.exit(1) raises
\* SystemExit, which the except Exception of call_vlm_api does not catch
EncodeImage ==
  /\ sel.spc = "encode"
  /\ \/ /\ fs.labeled.exists
        /\ sel' = [sel EXCEPT !.imageRead = fs.labeled, !.didRead = TRUE,
                              !.spc = "request"]
     \/ /\ ~fs.labeled.exists
        /\ sel' = [sel EXCEPT !.stderr = Encode(MissingFileText, sel.enc),
                              !.exit = 1, !.spc = "exited"]
     \/ /\ fs.labeled.exists
        /\ sel' = [sel EXCEPT !.stderr = Encode(ReadErrorText, sel.enc),
                              !.exit = 1, !.spc = "exited"]
  /\ UNCHANGED <<fs, orch, ann>>

\* response = client.chat.completions.create(...);
\* return response.choices[0].message.content.strip()
Request ==
  /\ sel.spc = "request"
  /\ \/ \E r \in Responses :
          sel' = [sel EXCEPT !.requests = @ + 1, !.responded = TRUE,
                             !.response = r, !.retval = Strip(r),
                             !.spc = "print"]
     \/ sel' = [sel EXCEPT !.requests = @ + 1, !.apiRaised = TRUE,
                           !.retval = ApiErrorText, !.spc = "print"]
  /\ UNCHANGED <<fs, orch, ann>>

\* print(selected_label), then the script ends with status 0
SelectorPrint ==
  /\ sel.spc = "print"
  /\ sel' = [sel EXCEPT !.stdout = WriteStdout(sel.retval, sel.enc),
                        !.exit = 0, !.spc = "exited"]
  /\ UNCHANGED <<fs, orch, ann>>

Selector ==
  \/ ConfigCheck \/ OpenAIClient \/ EncodeImage \/ Request \/ SelectorPrint

\* --------------------------------------------------------- the orchestrator
\* sys.exit(1) of main, or a traceback
Fail(how) == [orch EXCEPT !.outcome = how, !.exit = 1, !.pc = "exited"]

\* run_image_search: subprocess.run([sys.executable,
\* "image_search_annotator.py", query], check=True, ...)
RunImageSearch ==
  /\ orch.pc = "main"
  /\ \/ /\ ann' = [AnnInit EXCEPT !.apc = "sync_playwright"]
        /\ orch' = [orch EXCEPT !.pc = "run_image_search"]
     \/ /\ orch' = Fail("failure")
        /\ UNCHANGED ann
  /\ UNCHANGED <<fs, sel>>

\* check=True: a non-zero status is CalledProcessError, run_image_search
\* returns False and main exits with 1
RunImageSearchReturn ==
  /\ orch.pc = "run_image_search"
  /\ ann.apc = "exited"
  /\ orch' = IF ann.exit = 0
             THEN [orch EXCEPT !.pc = "run_vlm_selector"]
             ELSE Fail("failure")
  /\ UNCHANGED <<fs, ann, sel>>

\* run_vlm_selector: subprocess.run([sys.executable, "vlm_selector.py",
\* "labeled_screenshot.png", prompt], check=True, ..., encoding='gbk')
RunVlmSelector ==
  /\ orch.pc = "run_vlm_selector"
  /\ \/ /\ \E e \in SUBSET Settings, c \in StdoutEncodings :
             sel' = [SelInit EXCEPT !.spc = "call_vlm_api", !.env = e,
                                    !.enc = c,
                                    !.fileMissing = ~fs.labeled.exists]
        /\ orch' = [orch EXCEPT !.selCalls = @ + 1, !.pc = "wait_vlm_selector"]
     \/ /\ orch' = Fail("failure")
        /\ UNCHANGED sel
  /\ UNCHANGED <<fs, ann>>

\* the rest of run_vlm_selector and of main: decode the captured output,
\* selected_label = result.stdout.strip(), report it when it is non-empty
RunVlmSelectorReturn ==
  /\ orch.pc = "wait_vlm_selector"
  /\ sel.spc = "exited"
  /\ \E misfit \in {"mojibake", "error"} :
       orch' = IF DecodeFails(sel.stdout \o sel.stderr, misfit)
               THEN Fail("crash")
               ELSE IF sel.exit # 0
               THEN Fail("failure")
               ELSE IF Strip(ReadStdout(sel.stdout)) = <<>>
               THEN Fail("failure")
               ELSE [orch EXCEPT
                       !.selected_image_label = Strip(ReadStdout(sel.stdout)),
                       !.outcome = "success", !.exit = 0, !.pc = "exited"]
  /\ UNCHANGED <<fs, ann, sel>>

\* the pipeline is run again in the same directory
NextRun ==
  /\ orch.pc = "exited"
  /\ orch.run < MaxRuns
  /\ orch' = [OrchInit EXCEPT !.run = orch.run + 1]
  /\ ann' = AnnInit
  /\ sel' = SelInit
  /\ UNCHANGED fs

Orchestrator ==
  \/ RunImageSearch \/ RunImageSearchReturn \/ RunVlmSelector
  \/ RunVlmSelectorReturn \/ NextRun

Next == Annotator \/ Selector \/ Orchestrator

Spec == Init /\ [][Next]_vars


\* ------------------------------------------------------------------ claims
AnnotatorExited == ann.apc = "exited"
SelectorExited == sel.spc = "exited"
PipelineEnded == orch.pc = "exited"
PipelineFailed == orch.outcome # "success" /\ orch.exit = 1
WaitNames == {"goto", "wait_search_box", "wait_results"}

\* C1: in every run, once the annotator has ended after a timeout or a page
\* error, the Selection Client has not been invoked (call count 0) and the
\* pipeline, when it ends, ends in failure.
C1_NoSelectionAfterFailedAnnotation ==
  (AnnotatorExited /\ ann.raised # "none") =>
     /\ orch.selCalls = 0
     /\ PipelineEnded => PipelineFailed

\* C2: when the results-visibility wait timed out, the annotator ends with a
\* failing status, has attempted the diagnostic screenshot (written unless
\* that capture itself failed), and has not written the success screenshot.
C2_ResultsTimeoutReportsFailure ==
  (AnnotatorExited /\ ann.timedOutAt = "wait_results") =>
     /\ ann.exit # 0
     /\ ann.wroteError \/ ann.handlerRaised
     /\ ~ann.wroteSuccess

\* C3: when one of the three connection settings is absent, the Selection
\* Client returns the configuration-error text without raising and without a
\* model request, and the pipeline ends in failure.
C3_MissingConfigFailsPipeline ==
  (SelectorExited /\ sel.env # Settings) =>
     /\ sel.retval = CfgErrorText
     /\ sel.exit = 0 /\ ~sel.apiRaised
     /\ sel.requests = 0
     /\ PipelineEnded => PipelineFailed

\* C4: whenever the selection stage has read the screenshot, the file it
\* read was written by the annotation stage of the same run, and that stage
\* had ended successfully.
C4_SelectionReadsThisRunsScreenshot ==
  sel.didRead =>
     /\ sel.imageRead.run = orch.run
     /\ ann.wroteSuccess
     /\ ann.exit = 0

\* C5: for every response text r of the model with something left after
\* trimming, the pipeline succeeds and the label it reports is r with its
\* leading and trailing whitespace removed and nothing else changed.
C5_LabelIsTrimmedResponse ==
  (PipelineEnded /\ sel.responded /\ Strip(sel.response) # <<>>) =>
     /\ orch.outcome = "success"
     /\ orch.selected_image_label = Strip(sel.response)

DigitValue(c) == CASE c = "0" -> 0 [] c = "1" -> 1 [] c = "2" -> 2
                   [] c = "3" -> 3 [] c = "4" -> 4 [] c = "5" -> 5
                   [] c = "6" -> 6 [] c = "7" -> 7 [] c = "8" -> 8
                   [] c = "9" -> 9

RECURSIVE ParseDecimal(_)
ParseDecimal(t) ==
  IF Len(t) = 1 THEN DigitValue(t[1])
  ELSE 10 * ParseDecimal(SubSeq(t, 1, Len(t) - 1)) + DigitValue(t[Len(t)])

\* C6: after an annotation pass over N >= 0 discovered thumbnails there are
\* N overlays, the k-th carrying the integer k and sitting at the k-th
\* thumbnail's document position, the labels are exactly 1..N, and the
\* count returned is N.
C6_LabelsAreOneToN ==
  (ann.evaluated /\ ~AnnotatorExited) =>
     LET N == Len(ann.images) IN
     /\ Len(ann.body) = N
     /\ \A k \in 1..N :
          /\ ParseDecimal(ann.body[k].innerText) = k
          /\ ann.body[k].top = ann.scrollY + ann.images[k].top
          /\ ann.body[k].left = ann.scrollX + ann.images[k].left
     /\ {ParseDecimal(ann.body[k].innerText) : k \in 1..N} = 1..N
     /\ ann.annotated_count = N

C6_Witness ==
  /\ ann.evaluated /\ ann.apc = "screenshot"
  /\ Len(ann.images) = MaxThumbs /\ ann.scrollY # 0

\* C7: on every exit path of the annotator the browser it launched is
\* closed by the time annotate_image_search is left.
C7_BrowserClosedOnExit ==
  ann.apc \in {"exit", "exited"} => ~ann.browserOpen

C7_Witness ==
  AnnotatorExited /\ ann.launched /\ ann.handlerRaised /\ ann.unhandled

MissingFileReported ==
  /\ sel.stderr = Encode(MissingFileText, sel.enc)
  /\ sel.exit = 1
  /\ sel.stdout = <<>>
  /\ sel.requests = 0
  /\ PipelineEnded => PipelineFailed

\* C8 as stated: whenever the Selection Client is invoked with an image path
\* whose file does not exist, it reports the missing file and stops with a
\* failing status, emits no label text, makes no model request, and the
\* pipeline fails.
C8_MissingFileIsFatal ==
  (SelectorExited /\ sel.fileMissing) => MissingFileReported

\* C8 as amended: the same, for an invocation in which all three connection
\* settings are present and the API client was constructed.
C8_MissingFileIsFatalOnceConfigured ==
  (SelectorExited /\ sel.fileMissing /\ sel.clientBuilt) => MissingFileReported

C8_Witness ==
  SelectorExited /\ sel.fileMissing /\ sel.clientBuilt /\ PipelineEnded

\* C9: no fault raised inside a stage leaves it as an unhandled exception:
\* after a timeout or page error the annotator ends without one, and a
\* transport or model-side error of the Selection Client becomes the
\* descriptive failure text.
C9_NoFaultEscapesAStage ==
  /\ (AnnotatorExited /\ ann.raised # "none") => ~ann.unhandled
  /\ (SelectorExited /\ sel.apiRaised) =>
        sel.exit = 0 /\ sel.retval = ApiErrorText

\* C10: each blocking wait of the annotator stays within its own budget, and
\* a wait that used up its budget ends the annotation stage with a failure
\* result.
C10_TimedOutWaitEndsInFailure ==
  /\ ann.apc = "wait_search_box" => ann.waited < NavTimeout
  /\ ann.apc = "fill" => ann.waited < SearchBoxTimeout
  /\ ann.apc = "settle" => ann.waited < ResultsTimeout
  /\ ann.timedOutAt = "goto" => ann.waited = NavTimeout
  /\ ann.timedOutAt = "wait_search_box" => ann.waited = SearchBoxTimeout
  /\ ann.timedOutAt = "wait_results" => ann.waited = ResultsTimeout
  /\ (AnnotatorExited /\ ann.timedOutAt \in WaitNames) => ann.exit # 0

====
